---- MODULE Spec2Model ----
(***************************************************************************)
(* Model of simulate_pair_strategy (src/simulation.py): the paired         *)
(* knockout certificate engine.  One call of the function is followed from *)
(* its entry (the caller's DataFrame and the keyword arguments) through    *)
(* the date conversion, sort and filter, the day-0 initialisation, the     *)
(* day-by-day loop and the return.                                         *)
(*                                                                         *)
(* Numbers: the code computes in binary floating point; the model computes *)
(* with exact rationals <<n, d>> in lowest terms (d > 0).  Timestamps are  *)
(* counted in hours; a Date cell is a wall-clock hour count together with  *)
(* its time zone (aware, off = UTC offset in hours) or without one.        *)
(***************************************************************************)
EXTENDS Integers, Sequences, FiniteSets, TLC

VARIABLES
    bars,                  \* the DataFrame as the caller built it (never changes)
    df,                    \* the caller's DataFrame object passed as df
    start_date,            \* entry date (day number of the 'YYYY-MM-DD' string)
    multiplier,
    long_barrier_pct,
    short_barrier_pct,
    initial_investment,
    entry_cost,
    spread,
    pc,                    \* "idle", "call", "loop", "raised", "returned"
    sim_df,                \* local frame of the simulation
    entry_price,
    net_investment,
    long_knockout_level,
    short_knockout_level,
    long_active,
    short_active,
    i,                     \* loop variable of line 85 (0-based row number)
    result,                \* the returned frame
    error,                 \* message of the raised ValueError, "" when none
    app_pc,                \* main() of the app: "none" when the engine is called
                           \* directly, else "button", "simulate", "stopped",
                           \* "crashed", "done"
    provider,              \* what the market data provider does in this run
    st_error,              \* the message shown by st.error, "" when none
    in_the_money_value     \* the reference line of the chart

vars == <<bars, df, start_date, multiplier, long_barrier_pct, short_barrier_pct,
          initial_investment, entry_cost, spread, pc, sim_df, entry_price,
          net_investment, long_knockout_level, short_knockout_level,
          long_active, short_active, i, result, error,
          app_pc, provider, st_error, in_the_money_value>>

args == <<start_date, multiplier, long_barrier_pct, short_barrier_pct,
          initial_investment, entry_cost, spread>>

app == <<app_pc, provider, st_error, in_the_money_value>>

locals == <<sim_df, entry_price, net_investment, long_knockout_level,
            short_knockout_level, long_active, short_active, i>>

----------------------------------------------------------------------------
(* Bounds and input sets *)

MaxBars == 3

\* (Close, Low, High) of a daily bar; low <= close <= high as market data has it
BarValues ==
    { [Close |-> 100, Low |-> 100, High |-> 100],
      [Close |-> 120, Low |-> 120, High |-> 120],
      [Close |-> 100, Low |-> 80,  High |-> 100],
      [Close |-> 100, Low |-> 100, High |-> 120] }

\* time zones of the Date column: none (naive), or a UTC offset in hours
TimeZones ==
    { [aware |-> FALSE, off |-> 0],
      [aware |-> TRUE,  off |-> 0 - 4],
      [aware |-> TRUE,  off |-> 2] }

StartDates == {1, 2}

Multipliers == { <<3, 1>>, <<10, 1>> }

\* <<long_barrier_pct, short_barrier_pct>>
BarrierPcts == { << <<1, 10>>, <<1, 5>> >>, << <<1, 5>>, <<1, 10>> >> }

Investments == { <<100, 1>>, <<5, 1>> }

----------------------------------------------------------------------------
(* Exact rational arithmetic standing for the float arithmetic of the code *)

Abs(x) == IF x < 0 THEN 0 - x ELSE x

RECURSIVE GCD(_, _)
GCD(a, b) == IF b = 0 THEN a ELSE GCD(b, a % b)

Rat(n, d) ==
    LET s == IF d < 0 THEN 0 - 1 ELSE 1
        g == GCD(Abs(n), Abs(d))
    IN  << (s * n) \div g, (s * d) \div g >>

RInt(n) == <<n, 1>>
Zero == <<0, 1>>
One == <<1, 1>>

RAdd(a, b) == Rat(a[1] * b[2] + b[1] * a[2], a[2] * b[2])
RSub(a, b) == Rat(a[1] * b[2] - b[1] * a[2], a[2] * b[2])
RMul(a, b) == Rat(a[1] * b[1], a[2] * b[2])
RDiv(a, b) == Rat(a[1] * b[2], a[2] * b[1])
RLeq(a, b) == a[1] * b[2] <= b[1] * a[2]
RGeq(a, b) == RLeq(b, a)
RLt(a, b) == ~RLeq(b, a)

----------------------------------------------------------------------------
(* Dates: pd.to_datetime(..., utc=True).dt.tz_convert(None) and friends *)

\* A Date cell at midnight of calendar day d in time zone tz
Midnight(d, tz) == [wall |-> d * 24, aware |-> tz.aware, off |-> tz.off]

\* mutant of ToUtcNaive: the timestamp is moved to UTC but keeps its zone
ToUtcKeepsZone(cell) ==
    [wall |-> IF cell.aware THEN cell.wall - cell.off ELSE cell.wall,
     aware |-> cell.aware, off |-> cell.off]

\* line 51, one cell: an aware timestamp is moved to UTC and loses its zone;
\* a naive one is taken to be UTC already
ToUtcNaive(cell) ==
    [wall |-> IF cell.aware THEN cell.wall - cell.off ELSE cell.wall,
     aware |-> FALSE, off |-> 0]

\* line 51, the whole column
ConvertDates(frame) ==
    [k \in 1..Len(frame) |-> [frame[k] EXCEPT !.Date = ToUtcNaive(@)]]

\* line 54: pd.to_datetime('YYYY-MM-DD') is the naive midnight of that day
ParseStartDate(s) == [wall |-> s * 24, aware |-> FALSE, off |-> 0]

\* line 52: sort_values('Date') (ascending), by insertion
RECURSIVE InsertByDate(_, _)
InsertByDate(row, sorted) ==
    IF sorted = << >> THEN << row >>
    ELSE IF row.Date.wall < Head(sorted).Date.wall THEN << row >> \o sorted
    ELSE << Head(sorted) >> \o InsertByDate(row, Tail(sorted))

RECURSIVE SortValues(_)
SortValues(frame) ==
    IF frame = << >> THEN << >>
    ELSE InsertByDate(frame[Len(frame)], SortValues(SubSeq(frame, 1, Len(frame) - 1)))

\* line 55: df[df['Date'] >= start_date_dt]
KeepsRow(row, start_date_dt) == row.Date.wall >= start_date_dt.wall

FilterFrom(frame, start_date_dt) ==
    SelectSeq(frame, LAMBDA row : KeepsRow(row, start_date_dt))

\* lines 51-55: the frame the simulation runs on
SimRows(frame, s) == FilterFrom(SortValues(ConvertDates(frame)), ParseStartDate(s))

----------------------------------------------------------------------------
(* Lines 61-82: derived constants and day 0 *)

\* mutant of NetInvestment: the spread is not deducted
NetInvestmentNoSpread(init, cost, spr) == RSub(init, cost)

\* line 64
NetInvestment(init, cost, spr) == RSub(init, RAdd(cost, spr))

\* mutant of LongKnockoutLevel: the barrier fraction is clamped to at most 1
LongKnockoutLevelClamped(price, pct) ==
    RMul(price, RSub(One, IF RLeq(pct, One) THEN pct ELSE One))

\* line 72
LongKnockoutLevel(price, pct) == RMul(price, RSub(One, pct))

\* line 73
ShortKnockoutLevel(price, pct) == RMul(price, RAdd(One, pct))

\* lines 67-69 and 80-82: the value columns start at 0.0, row 0 is set
InitFrame(rows, net) ==
    [k \in 1..Len(rows) |->
        [Date |-> rows[k].Date, Close |-> rows[k].Close,
         High |-> rows[k].High, Low |-> rows[k].Low,
         Long_Value |-> IF k = 1 THEN net ELSE Zero,
         Short_Value |-> IF k = 1 THEN net ELSE Zero,
         Combined_Value |-> IF k = 1 THEN RMul(net, RInt(2)) ELSE Zero]]

----------------------------------------------------------------------------
(* Lines 85-114: one iteration of the loop.  n is the 0-based row number   *)
(* of the code; row n of the code is frame[n + 1].                         *)

\* mutant of DailyReturn: the return is taken from the fixed entry close
DailyReturnFromEntry(frame, n) ==
    RSub(RDiv(RInt(frame[n + 1].Close), RInt(frame[1].Close)), One)

\* lines 86-89
DailyReturn(frame, n) ==
    RSub(RDiv(RInt(frame[n + 1].Close), RInt(frame[n].Close)), One)

\* mutant of LongBreached: the level itself is not yet a breach
LongBreachedStrict(row, level) == RLt(RInt(row.Low), level)

\* line 93
LongBreached(row, level) == RLeq(RInt(row.Low), level)

\* line 104
ShortBreached(row, level) == RGeq(RInt(row.High), level)

\* mutant of LongStep: no memory of the knockout, the value is recomputed from
\* the entry day whenever the day's low is above the level
LongStepStateless(frame, n, active, level, mult) ==
    IF RLeq(RInt(frame[n + 1].Low), level)
    THEN [value |-> Zero, active |-> FALSE]
    ELSE [value |-> RMul(frame[1].Long_Value,
                         RAdd(One, RMul(mult, RSub(RDiv(RInt(frame[n + 1].Close),
                                                        RInt(frame[1].Close)), One)))),
          active |-> TRUE]

\* mutant of LongStep: a value compounded to 0 or below is floored at 0 and
\* ends the leg
LongStepFloored(frame, n, active, level, mult) ==
    LET v == RMul(frame[n].Long_Value,
                  RAdd(One, RMul(mult, RSub(RDiv(RInt(frame[n + 1].Close),
                                                 RInt(frame[n].Close)), One))))
    IN  IF active /\ ~RLeq(RInt(frame[n + 1].Low), level) /\ ~RLeq(v, Zero)
        THEN [value |-> v, active |-> TRUE]
        ELSE [value |-> Zero, active |-> FALSE]

\* lines 92-100
LongStep(frame, n, active, level, mult) ==
    IF active
    THEN IF LongBreached(frame[n + 1], level)
         THEN [value |-> Zero, active |-> FALSE]
         ELSE [value |-> RMul(frame[n].Long_Value,
                              RAdd(One, RMul(mult, DailyReturn(frame, n)))),
               active |-> TRUE]
    ELSE [value |-> Zero, active |-> FALSE]

\* lines 103-111
ShortStep(frame, n, active, level, mult) ==
    IF active
    THEN IF ShortBreached(frame[n + 1], level)
         THEN [value |-> Zero, active |-> FALSE]
         ELSE [value |-> RMul(frame[n].Short_Value,
                              RSub(One, RMul(mult, DailyReturn(frame, n)))),
               active |-> TRUE]
    ELSE [value |-> Zero, active |-> FALSE]

\* mutant of CombinedValue: twice the long leg, as on day 0
CombinedValueTwiceLong(long, short) == RMul(long, RInt(2))

\* line 114
CombinedValue(long, short) == RAdd(long, short)

\* mutant of LoopBody: the short block tests the long leg's flag
LoopBodyLongFlag(frame, n, la, sa, lkl, skl, mult) ==
    LET l == LongStep(frame, n, la, lkl, mult)
        s == ShortStep(frame, n, l.active, skl, mult)
    IN  [frame |-> [frame EXCEPT ![n + 1].Long_Value = l.value,
                                 ![n + 1].Short_Value = s.value,
                                 ![n + 1].Combined_Value = CombinedValue(l.value, s.value)],
         long_active |-> l.active,
         short_active |-> s.active]

\* lines 86-114: the frame and the flags after iteration n
LoopBody(frame, n, la, sa, lkl, skl, mult) ==
    LET l == LongStep(frame, n, la, lkl, mult)
        s == ShortStep(frame, n, sa, skl, mult)
    IN  [frame |-> [frame EXCEPT ![n + 1].Long_Value = l.value,
                                 ![n + 1].Short_Value = s.value,
                                 ![n + 1].Combined_Value = CombinedValue(l.value, s.value)],
         long_active |-> l.active,
         short_active |-> s.active]

\* line 116: sim_df[['Date', 'Long Value', 'Short Value', 'Combined Value']]
Output(frame) ==
    [k \in 1..Len(frame) |->
        [Date |-> frame[k].Date, Long_Value |-> frame[k].Long_Value,
         Short_Value |-> frame[k].Short_Value,
         Combined_Value |-> frame[k].Combined_Value]]

EmptyRangeMessage == "No data available from the specified start date."

----------------------------------------------------------------------------
(* The whole call as a function of its arguments (lines 50-116) *)

RECURSIVE Loop(_, _, _, _, _, _, _)
Loop(frame, n, la, sa, lkl, skl, mult) ==
    IF n >= Len(frame) THEN frame
    ELSE LET r == LoopBody(frame, n, la, sa, lkl, skl, mult)
         IN  Loop(r.frame, n + 1, r.long_active, r.short_active, lkl, skl, mult)

Simulate(frame, s, mult, lpct, spct, init, cost, spr) ==
    LET rows == SimRows(frame, s)
        price == RInt(rows[1].Close)
    IN  IF rows = << >>
        THEN [error |-> EmptyRangeMessage, result |-> << >>]
        ELSE [error |-> "",
              result |-> Output(Loop(InitFrame(rows, NetInvestment(init, cost, spr)),
                                     1, TRUE, TRUE,
                                     LongKnockoutLevel(price, lpct),
                                     ShortKnockoutLevel(price, spct), mult))]

----------------------------------------------------------------------------
(* The state machine *)

\* The caller's frame: n bars on the calendar days 1..n of one time zone,
\* in ascending or in descending order of date
InputFrame(n, vals, tz, descending) ==
    [k \in 1..n |->
        [Date |-> Midnight(IF descending THEN n + 1 - k ELSE k, tz),
         Close |-> vals[k].Close, High |-> vals[k].High, Low |-> vals[k].Low]]

\* the frame and the keyword arguments of a run
Inputs ==
    /\ \E n \in 1..MaxBars :
         \E vals \in [1..n -> BarValues], tz \in TimeZones, descending \in BOOLEAN :
            bars = InputFrame(n, vals, tz, descending)
    /\ df = bars
    /\ start_date \in StartDates
    /\ multiplier \in Multipliers
    /\ \E b \in BarrierPcts : long_barrier_pct = b[1] /\ short_barrier_pct = b[2]
    /\ initial_investment \in Investments
    /\ entry_cost = RInt(5)
    /\ spread = RInt(3)

\* nothing of the call has run yet
Unset ==
    /\ sim_df = << >>
    /\ entry_price = Zero
    /\ net_investment = Zero
    /\ long_knockout_level = Zero
    /\ short_knockout_level = Zero
    /\ long_active = FALSE
    /\ short_active = FALSE
    /\ i = 0
    /\ result = << >>
    /\ error = ""
    /\ st_error = ""
    /\ in_the_money_value = Zero

\* simulate_pair_strategy is called on the frame, without the app
Init ==
    /\ Inputs
    /\ Unset
    /\ pc = "call"
    /\ app_pc = "none"
    /\ provider = "none"

\* lines 50-58, the filtered frame is empty: the ValueError is raised
CallRaise ==
    /\ pc = "call"
    /\ SimRows(df, start_date) = << >>
    /\ df' = ConvertDates(df)
    /\ sim_df' = << >>
    /\ error' = EmptyRangeMessage
    /\ pc' = "raised"
    /\ UNCHANGED <<bars, args, entry_price, net_investment, long_knockout_level,
                   short_knockout_level, long_active, short_active, i, result, app>>

\* lines 50-82, the filtered frame is not empty: up to the start of the loop
CallInit ==
    /\ pc = "call"
    /\ SimRows(df, start_date) # << >>
    /\ LET rows == SimRows(df, start_date)
           price == RInt(rows[1].Close)
           net == NetInvestment(initial_investment, entry_cost, spread)
       IN  /\ df' = ConvertDates(df)
           /\ entry_price' = price
           /\ net_investment' = net
           /\ sim_df' = InitFrame(rows, net)
           /\ long_knockout_level' = LongKnockoutLevel(price, long_barrier_pct)
           /\ short_knockout_level' = ShortKnockoutLevel(price, short_barrier_pct)
    /\ long_active' = TRUE
    /\ short_active' = TRUE
    /\ i' = 1
    /\ pc' = "loop"
    /\ UNCHANGED <<bars, args, result, error, app>>

\* lines 85-114: one iteration of the loop
Day ==
    /\ pc = "loop"
    /\ i < Len(sim_df)
    /\ LET r == LoopBody(sim_df, i, long_active, short_active,
                         long_knockout_level, short_knockout_level, multiplier)
       IN  /\ sim_df' = r.frame
           /\ long_active' = r.long_active
           /\ short_active' = r.short_active
    /\ i' = i + 1
    /\ UNCHANGED <<bars, df, args, pc, entry_price, net_investment,
                   long_knockout_level, short_knockout_level, result, error, app>>

\* line 116: the loop is over, the four columns are returned
Return ==
    /\ pc = "loop"
    /\ i >= Len(sim_df)
    /\ result' = Output(sim_df)
    /\ pc' = "returned"
    /\ UNCHANGED <<bars, df, args, locals, error, app>>

Next == CallRaise \/ CallInit \/ Day \/ Return

Spec == Init /\ [][Next]_vars

\* the model agrees with the function it is cut from
RunIsSimulate ==
    pc \in {"returned", "raised"} =>
        LET r == Simulate(bars, start_date, multiplier, long_barrier_pct,
                          short_barrier_pct, initial_investment, entry_cost, spread)
        IN  r.error = error /\ r.result = result

----------------------------------------------------------------------------
(* Vocabulary of the properties.  Day n is row n of the code (0-based),    *)
(* that is sim_df[n + 1]; the days 1..i-1 have been simulated.             *)

Started == pc \in {"loop", "returned"}

Days == IF Started THEN 1..(i - 1) ELSE {}

Row(n) == sim_df[n + 1]

\* the day's low is at or below the long knockout level
LowBreach(n) == Row(n).Low * long_knockout_level[2] <= long_knockout_level[1]

\* the day's high is at or above the short knockout level
HighBreach(n) == Row(n).High * short_knockout_level[2] >= short_knockout_level[1]

\* the leg is still active at the start of day n: no breach on the days before
LongActiveAt(n) == \A k \in 1..(n - 1) : ~LowBreach(k)
ShortActiveAt(n) == \A k \in 1..(n - 1) : ~HighBreach(k)

IsZero(v) == v[1] = 0
NonNegative(v) == v[1] >= 0

----------------------------------------------------------------------------
\* C1: Monotone absorption.  If the long leg is knocked out on day k (its low
\* is at or below the long knockout level), Long Value is 0 on day k and on
\* every later day j, also when the price is back inside the barrier on day
\* j, and the leg is not active afterwards; the same for the short leg with
\* the day's high and the short knockout level.
C1_MonotoneAbsorption ==
    \A k \in Days :
        /\ LowBreach(k) =>
              /\ ~long_active
              /\ \A j \in Days : j >= k => IsZero(Row(j).Long_Value)
        /\ HighBreach(k) =>
              /\ ~short_active
              /\ \A j \in Days : j >= k => IsZero(Row(j).Short_Value)

\* a knocked-out long leg with a later day whose low is back above the
\* level and whose compounding factor is not zero
C1_Witness ==
    \E k \in Days, j \in Days :
        /\ k < j
        /\ LongActiveAt(k) /\ LowBreach(k)
        /\ ~LowBreach(j)
        /\ Row(j).Close # Row(j - 1).Close
        /\ IsZero(Row(j).Long_Value)
        /\ ~IsZero(Row(0).Long_Value)

\* C2: The knockout test comes before the day's return.  In every iteration
\* of the loop that starts with the long leg active and the day's low at or
\* below the long knockout level, the day's Long Value is set to exactly 0
\* and the leg is no longer active, whatever the close and the previous
\* value are; the same for the short leg with the day's high.
C2_KnockoutBeforeReturn ==
    [][ (pc = "loop" /\ i < Len(sim_df)) =>
            /\ (long_active /\ LowBreach(i)) =>
                  (IsZero(sim_df'[i + 1].Long_Value) /\ ~long_active')
            /\ (short_active /\ HighBreach(i)) =>
                  (IsZero(sim_df'[i + 1].Short_Value) /\ ~short_active') ]_vars

\* a leg knocked out on a day whose close would have compounded the previous,
\* non-zero value to a non-zero value: low = level < close
C2_Witness ==
    \E n \in Days :
        /\ n = i - 1
        /\ LongActiveAt(n)
        /\ Row(n).Low * long_knockout_level[2] = long_knockout_level[1]
        /\ Row(n).Close > Row(n).Low
        /\ ~IsZero(Row(n - 1).Long_Value)
        /\ IsZero(Row(n).Long_Value)

\* the previous day's value v compounded with the leveraged return of the
\* closes c0 -> c1, sign = 1 for the long leg and -1 for the short leg
Compounded(v, c0, c1, sign) ==
    RMul(v, RAdd(One, RMul(RMul(RInt(sign), multiplier), Rat(c1 - c0, c0))))

\* C3: Compounding recurrence.  On every day n >= 1 on which a leg is active
\* and not breached, its value is the previous day's value of the same leg
\* times (1 + leverage * r) for the long leg and (1 - leverage * r) for the
\* short leg, r = close[n] / close[n-1] - 1.
C3_CompoundingRecurrence ==
    \A n \in Days :
        /\ (LongActiveAt(n) /\ ~LowBreach(n)) =>
              Row(n).Long_Value =
                 Compounded(Row(n - 1).Long_Value, Row(n - 1).Close, Row(n).Close, 1)
        /\ (ShortActiveAt(n) /\ ~HighBreach(n)) =>
              Row(n).Short_Value =
                 Compounded(Row(n - 1).Short_Value, Row(n - 1).Close, Row(n).Close, 0 - 1)

\* both legs compounded on a day n >= 2 whose previous close is neither the
\* entry close nor the day's close
C3_Witness ==
    \E n \in Days :
        /\ n >= 2
        /\ LongActiveAt(n) /\ ~LowBreach(n)
        /\ ShortActiveAt(n) /\ ~HighBreach(n)
        /\ Row(n - 1).Close # Row(0).Close
        /\ Row(n - 1).Close # Row(n).Close
        /\ ~IsZero(Row(n).Long_Value)
        /\ ~IsZero(Row(n).Short_Value)

----------------------------------------------------------------------------
(* Two runs *)

\* the call with the arguments of this run on another frame
SimulateWith(frame) ==
    Simulate(frame, start_date, multiplier, long_barrier_pct, short_barrier_pct,
             initial_investment, entry_cost, spread)

LongSeries(res) == [k \in 1..Len(res) |-> res[k].Long_Value]
ShortSeries(res) == [k \in 1..Len(res) |-> res[k].Short_Value]

\* the lows and highs another run may have on a day
OtherLows == {b.Low : b \in BarValues}
OtherHighs == {b.High : b \in BarValues}

\* C4: Independence of the legs.  A run on the same dates, closes and highs
\* whose low differs on some day k (so that the long leg may knock out there
\* in one run and not in the other) returns the same Short Value series; a
\* run that differs in the high of some day returns the same Long Value
\* series.
C4_LegIndependence ==
    pc = "returned" =>
        \A k \in 1..Len(bars) :
            /\ \A low \in OtherLows \ {bars[k].Low} :
                  LET other == SimulateWith([bars EXCEPT ![k].Low = low])
                  IN  other.error = "" /\ ShortSeries(other.result) = ShortSeries(result)
            /\ \A high \in OtherHighs \ {bars[k].High} :
                  LET other == SimulateWith([bars EXCEPT ![k].High = high])
                  IN  other.error = "" /\ LongSeries(other.result) = LongSeries(result)

\* the other run knocks the long leg out where this run does not, while the
\* short leg of this run is never knocked out and moves
C4_Witness ==
    /\ pc = "returned"
    /\ Len(result) >= 3
    /\ \A n \in Days : ~LowBreach(n) /\ ~HighBreach(n)
    /\ result[Len(result)].Short_Value # result[1].Short_Value
    /\ \E k \in 1..Len(bars), low \in OtherLows :
          LET other == SimulateWith([bars EXCEPT ![k].Low = low])
          IN  /\ IsZero(other.result[2].Long_Value)
              /\ IsZero(other.result[Len(result)].Long_Value)
              /\ ~IsZero(result[Len(result)].Long_Value)

----------------------------------------------------------------------------
(* The call as its caller sees it *)

Finished == pc \in {"raised", "returned"}

\* the bars of the caller's frame whose calendar date is the entry date or later
FromEntry == SelectSeq(bars, LAMBDA row : row.Date.wall >= start_date * 24)

\* the caller's frame is ordered ascending by unique date
Ascending == \A k \in 1..(Len(bars) - 1) : bars[k].Date.wall < bars[k + 1].Date.wall

\* the instant a Date cell stands for, in hours UTC (a naive cell is UTC)
Instant(cell) == IF cell.aware THEN cell.wall - cell.off ELSE cell.wall

\* C5: Non-negative leg value.  With positive prices, leverage > 0, barrier
\* fractions in [0,1), capital > 0 and costs >= 0 (every run of this model),
\* Long Value and Short Value are >= 0 on every day written so far.
C5_NonNegativeValues ==
    Started =>
        \A n \in 0..(i - 1) :
            NonNegative(Row(n).Long_Value) /\ NonNegative(Row(n).Short_Value)

\* C6: Empty range fails.  When no bar has a date >= the entry date the call
\* raises 'No data available from the specified start date.' and returns
\* nothing; when some bar has a date >= the entry date it does not raise.
C6_EmptyRangeFails ==
    /\ (pc # "call" /\ FromEntry # << >>) => error = ""
    /\ (Finished /\ FromEntry = << >>) =>
          (pc = "raised" /\ error = EmptyRangeMessage /\ result = << >>)

\* C7: Day-0 invariant.  The first row has Long Value = Short Value =
\* initial investment - (entry cost + spread) and Combined Value = twice
\* that, whatever the entry bar's high and low are, and both legs are active
\* when day 1 starts.
C7_DayZero ==
    Started =>
        LET net == RSub(RSub(initial_investment, spread), entry_cost)
        IN  /\ Row(0).Long_Value = net
            /\ Row(0).Short_Value = net
            /\ Row(0).Combined_Value = RAdd(net, net)
            /\ i = 1 => (long_active /\ short_active)
            /\ pc = "returned" =>
                  /\ result[1].Long_Value = net
                  /\ result[1].Short_Value = net
                  /\ result[1].Combined_Value = RAdd(net, net)

\* day 1 is about to start and the entry bar's low is at or below the long
\* knockout level
C7_Witness ==
    /\ pc = "loop"
    /\ i = 1
    /\ Len(sim_df) >= 2
    /\ LowBreach(0)
    /\ long_active /\ short_active

\* C8: Result shape.  For a frame ordered ascending by unique date with N
\* bars dated on or after the entry date, the result has N rows, one per
\* such bar, with the dates of those bars in the same order.
C8_ResultShape ==
    (pc = "returned" /\ Ascending) =>
        /\ Len(result) = Len(FromEntry)
        /\ \A k \in 1..Len(result) :
              k <= Len(FromEntry) => Instant(result[k].Date) = Instant(FromEntry[k].Date)

\* l + s = c, by cross-multiplication
IsSum(c, l, s) == c[1] * l[2] * s[2] = (l[1] * s[2] + s[1] * l[2]) * c[2]

\* C9: Combined Value = Long Value + Short Value on every row: day 0, the
\* days of a knockout, the days after one, and every row of the result.
C9_CombinedIsSum ==
    Started =>
        /\ \A k \in 1..Len(sim_df) :
              IsSum(sim_df[k].Combined_Value, sim_df[k].Long_Value, sim_df[k].Short_Value)
        /\ \A k \in 1..Len(result) :
              IsSum(result[k].Combined_Value, result[k].Long_Value, result[k].Short_Value)

\* a returned result in which one leg was knocked out on day 1 and the other
\* leg is worth something different from the long leg on a later day
C9_Witness ==
    /\ pc = "returned"
    /\ Len(result) >= 3
    /\ HighBreach(1) /\ ~LowBreach(1) /\ ~LowBreach(2)
    /\ IsZero(result[3].Short_Value)
    /\ ~IsZero(result[3].Long_Value)

\* C10: No side effects.  When the call has returned or raised, the caller's
\* frame is as the caller built it: same rows, same order, same values, the
\* Date column included.
C10_NoSideEffects == Finished => df = bars

\* C12: Determinism/idempotence.  A second call with the same arguments
\* gives the result (or the error) of the first, both on a frame equal to
\* the one the caller built and on the very frame object the first call has
\* processed, whose Date column the first call has rewritten.
C12_SecondCallSameResult ==
    Finished =>
        /\ SimulateWith(df).error = error
        /\ SimulateWith(df).result = result
        /\ SimulateWith(bars).error = error
        /\ SimulateWith(bars).result = result

\* a returned result of at least two rows on a frame whose Date column the
\* first call has changed
C12_Witness ==
    /\ pc = "returned"
    /\ Len(result) >= 2
    /\ df # bars

\* the bar of the caller's frame with the earliest date on or after the entry date
EarliestFromEntry ==
    CHOOSE row \in {FromEntry[k] : k \in 1..Len(FromEntry)} :
        \A k \in 1..Len(FromEntry) : row.Date.wall <= FromEntry[k].Date.wall

\* C13: Fixed reference price.  entryPrice is the close of the earliest bar
\* dated on or after the entry date; the knockout levels are entryPrice *
\* (1 - longBarrierFraction) and entryPrice * (1 + shortBarrierFraction),
\* and stay so on every later day.
C13_FixedReferencePrice ==
    Started =>
        /\ FromEntry # << >>
        /\ entry_price = RInt(EarliestFromEntry.Close)
        /\ long_knockout_level =
              RSub(entry_price, RMul(entry_price, long_barrier_pct))
        /\ short_knockout_level =
              RAdd(entry_price, RMul(entry_price, short_barrier_pct))

\* C16: Active flag tracks breaches only.  After the days simulated so far
\* the long leg is active if and only if none of them had its low at or
\* below the long knockout level, the short leg if and only if none had its
\* high at or above the short knockout level; a value of 0 or below reached
\* without a breach leaves the leg active and is compounded further.
C16_ActiveIffNoBreach ==
    Started =>
        /\ long_active <=> (\A k \in Days : ~LowBreach(k))
        /\ short_active <=> (\A k \in Days : ~HighBreach(k))
        /\ \A n \in Days :
              (n >= 2 /\ long_active /\ ~NonNegative(Row(n - 1).Long_Value)) =>
                  Row(n).Long_Value =
                     Compounded(Row(n - 1).Long_Value, Row(n - 1).Close, Row(n).Close, 1)

\* the long leg went negative on a day without a breach, is still active
\* and has been compounded again on the next day
C16_Witness ==
    \E n \in Days :
        /\ n >= 2
        /\ long_active
        /\ \A k \in Days : ~LowBreach(k)
        /\ ~NonNegative(Row(n - 1).Long_Value)
        /\ Row(n).Close # Row(n - 1).Close
        /\ Row(n).Long_Value # Row(n - 1).Long_Value

----------------------------------------------------------------------------
(* The app: main() of src/streamlit_app.py after 'Run Simulation' is       *)
(* pressed, with get_yf_data of src/data_fetch.py.  The provider either    *)
(* answers ("ok"), fails on the ticker's info ("info_fails") or fails      *)
(* while the history is retrieved ("history_fails").                       *)

Providers == {"ok", "info_fails", "history_fails"}

TickerNotFoundMessage == "Ticker not found"

\* streamlit_app.py line 116
InTheMoneyValue(init, cost, spr) == RMul(RInt(2), RAdd(init, RAdd(cost, spr)))

\* the button is pressed; bars is the history the provider has for the ticker
AppInit ==
    /\ Inputs
    /\ Unset
    /\ pc = "idle"
    /\ app_pc = "button"
    /\ provider \in Providers

\* data_fetch.py lines 28-35: asset.info raises inside the try, the dict
\* {'Error': e} is returned; streamlit_app.py lines 52-54: st.error, st.stop
FetchTickerNotFound ==
    /\ app_pc = "button"
    /\ provider = "info_fails"
    /\ st_error' = TickerNotFoundMessage
    /\ app_pc' = "stopped"
    /\ UNCHANGED <<bars, df, args, pc, locals, result, error, provider,
                   in_the_money_value>>

\* data_fetch.py line 38: asset.history raises after the try block; the
\* exception leaves get_yf_data and main(), which has no handler
FetchHistoryRaises ==
    /\ app_pc = "button"
    /\ provider = "history_fails"
    /\ app_pc' = "crashed"
    /\ UNCHANGED <<bars, df, args, pc, locals, result, error, provider, st_error,
                   in_the_money_value>>

\* data_fetch.py lines 28-44 and streamlit_app.py lines 51-60: the history
\* is returned under 'historics' and simulate_pair_strategy is called on it
FetchOk ==
    /\ app_pc = "button"
    /\ provider = "ok"
    /\ pc = "idle"
    /\ pc' = "call"
    /\ app_pc' = "simulate"
    /\ UNCHANGED <<bars, df, args, locals, result, error, provider, st_error,
                   in_the_money_value>>

\* streamlit_app.py line 60: the engine's ValueError leaves main()
EngineErrorPropagates ==
    /\ app_pc = "simulate"
    /\ pc = "raised"
    /\ app_pc' = "crashed"
    /\ UNCHANGED <<bars, df, args, pc, locals, result, error, provider, st_error,
                   in_the_money_value>>

\* streamlit_app.py lines 70-117: the comparison frame and the chart
Plot ==
    /\ app_pc = "simulate"
    /\ pc = "returned"
    /\ df' = ConvertDates(df)
    /\ in_the_money_value' = InTheMoneyValue(initial_investment, entry_cost, spread)
    /\ app_pc' = "done"
    /\ UNCHANGED <<bars, args, pc, locals, result, error, provider, st_error>>

AppNext ==
    \/ FetchTickerNotFound
    \/ FetchHistoryRaises
    \/ FetchOk
    \/ CallRaise
    \/ CallInit
    \/ Day
    \/ Return
    \/ EngineErrorPropagates
    \/ Plot

AppSpec == AppInit /\ [][AppNext]_vars

\* C11: The 'in-the-money' reference line of the chart is
\* 2 * (initialCapitalPerLeg - (entryCost + spread)), the engine's Combined
\* Value on day 0.
C11_InTheMoneyLine ==
    app_pc = "done" =>
        /\ in_the_money_value =
              RMul(RInt(2), RSub(initial_investment, RAdd(entry_cost, spread)))
        /\ in_the_money_value = result[1].Combined_Value

ProviderFails == provider \in {"info_fails", "history_fails"}

\* C14: Upstream failures never reach the engine.  When the provider fails
\* (unknown ticker, or a failure while the history is retrieved) the run
\* ends with the error reported and without simulate_pair_strategy having
\* been called; the engine is called only after a successful fetch.
C14_UpstreamFailuresHandled ==
    /\ pc # "idle" => provider = "ok"
    /\ (ProviderFails /\ app_pc # "button") => (st_error # "" /\ pc = "idle")

----------------------------------------------------------------------------
(* Calls with parameters outside the ranges of the data model *)

\* leverage > 0 and barrier fractions in [0, 1)
InDomain ==
    /\ RLt(Zero, multiplier)
    /\ RLeq(Zero, long_barrier_pct) /\ RLt(long_barrier_pct, One)
    /\ RLeq(Zero, short_barrier_pct) /\ RLt(short_barrier_pct, One)

AnyMultipliers == { <<3, 1>>, <<0 - 3, 1>> }
AnyBarrierPcts == { <<1, 10>>, <<6, 5>> }

\* a naive frame in ascending order and keyword arguments of which at least
\* one is out of its range
UncheckedInputs ==
    /\ \E n \in 1..MaxBars :
         \E vals \in [1..n -> BarValues] :
            bars = InputFrame(n, vals, [aware |-> FALSE, off |-> 0], FALSE)
    /\ df = bars
    /\ start_date \in StartDates
    /\ multiplier \in AnyMultipliers
    /\ long_barrier_pct \in AnyBarrierPcts
    /\ short_barrier_pct \in AnyBarrierPcts
    /\ initial_investment = RInt(100)
    /\ entry_cost = RInt(5)
    /\ spread = RInt(3)
    /\ ~InDomain

UncheckedInit ==
    /\ UncheckedInputs
    /\ Unset
    /\ pc = "call"
    /\ app_pc = "none"
    /\ provider = "none"

UncheckedSpec == UncheckedInit /\ [][Next]_vars

\* the levels and the simulated days are those of the parameters as given
UsedAsGiven ==
    Started =>
        /\ long_knockout_level[1] * long_barrier_pct[2] * entry_price[2] =
              entry_price[1] * (long_barrier_pct[2] - long_barrier_pct[1])
                 * long_knockout_level[2]
        /\ short_knockout_level[1] * short_barrier_pct[2] * entry_price[2] =
              entry_price[1] * (short_barrier_pct[2] + short_barrier_pct[1])
                 * short_knockout_level[2]
        /\ C3_CompoundingRecurrence
        /\ C16_ActiveIffNoBreach

\* C15: Out-of-domain parameters are surfaced, not clamped.  A call with an
\* out-of-domain parameter (negative leverage, a barrier fraction >= 1)
\* fails with an error before any daily step is simulated, and no parameter
\* is replaced by a clamped value.
C15_OutOfDomainRejected ==
    ~InDomain =>
        /\ pc \in {"call", "raised"}
        /\ pc = "raised" => error # ""
        /\ UsedAsGiven

\* C15 as amended: the engine does not validate its parameters.  A call with
\* an out-of-domain parameter whose filtered range is not empty does not
\* fail: it goes on to the daily steps, and the knockout levels and the
\* values are computed from the parameters exactly as given, none clamped.
C15_OutOfDomainUsedAsGiven ==
    (~InDomain /\ pc # "call" /\ SimRows(bars, start_date) # << >>) =>
        /\ Started
        /\ error = ""
        /\ UsedAsGiven

\* two days simulated with a negative leverage and a long barrier fraction
\* of 1.2: the level is negative, the long leg alive and moving
C15_Witness ==
    /\ Started
    /\ i >= 3
    /\ multiplier[1] < 0
    /\ long_barrier_pct = <<6, 5>>
    /\ long_knockout_level[1] < 0
    /\ long_active
    /\ Row(2).Long_Value # Row(0).Long_Value

====
